---- MODULE Spec2Model ----
(***************************************************************************)
(* Verification model of the registry's tag store (TagStore over a storage *)
(* driver) and of the pull-through proxy manifest store.                   *)
(*                                                                         *)
(* The storage driver is a flat map from paths to contents.  Every backend *)
(* call of a handler (PutContent, GetContent, List, Delete) is one atomic  *)
(* step, so that calls of concurrent requests interleave between backend   *)
(* calls exactly as goroutines serving separate requests do.               *)
(***************************************************************************)
EXTENDS Integers, Sequences, FiniteSets, TLC

\* ------------------------------------------------------------------ bounds
\* the number of Tag and Untag calls a behaviour may start; a behaviour holds
\* at most one Lookup call and ends when that call has returned
MaxWrites == 4

\* the number of proxy manifest store calls a behaviour may make
MaxProxyCalls == 3

\* the last minute of the scheduler's clock
MaxTime == 21

\* the number of tags a Lookup call may list when its goroutines are modelled
MaxTags == 3

\* the number of entries the driver's List may return to All
MaxEntries == 3

\* the number of options NewRegistry may be given
MaxOptions == 3

\* the number of references a manifest builder may be given
MaxReferences == 2

\* the tags of the repository, the manifest digests and the concurrent requests
Tags == {1, 2}
Digests == {1, 2}
Callers == {1, 2}

\* "no digest" / "no file": the zero value of digest.Digest, and an absent path
NoDigest == 0

VARIABLES
  files,        \* the storage driver: path -> digest stored there (NoDigest: absent)
  call,         \* per caller: the Tag call in flight and its position
  lk,           \* the Lookup call in flight: position, listed tags, output
  writes,       \* the number of Tag and Untag calls started so far
  life,         \* history: per tag, "never" tagged, "untagged", or "touched" by a Tag since
  tagged,       \* history: per tag, the digests ever passed to Tag(tag, .)
  lastTag,      \* history: per tag, digest of the last undisturbed returned Tag
  lastApplied,  \* history: per tag, digest of the last applied current write
  accumulated,  \* history: per tag, digests of Tag calls returned since Untag
  disturb,      \* history: per caller, what other writers did to its tag meanwhile
  untagged,     \* history: the tags an Untag call has removed at some time
  local,        \* proxy: the manifests held by the local manifest service
  remoteTags,   \* proxy: upstream, the manifest each tag points at (NoManifest: none)
  sched,        \* proxy: the scheduler's entries, one per AddManifest call
  plog,         \* proxy: the collaborator calls made by the last handler, in order
  pret,         \* proxy: what the last handler returned
  pcalls,       \* proxy: the number of handler calls so far
  entries,      \* scheduler: the pending evictions, {key, expiresAt}
  now,          \* scheduler: the clock, in minutes
  lastAdd,      \* history: the time of the latest AddManifest call
  factor,       \* the TagStore's lookupConcurrencyFactor
  grp,          \* a Lookup call's goroutines: the errgroup, the readers, the channel
  listed,       \* All: what the driver's List returned to the last call
  allRet,       \* All: what the last call returned
  ttlOption,    \* configuration: the proxy.ttl option
  registry,     \* storage: the registry built by NewRegistry, with its options
  made,         \* storage: the service last returned by repository.Blobs / Manifests
  rewrite,      \* rewrite middleware: its options, the wrapped result, its own result
  bld,          \* manifest builder: the builder's fields
  blobs,        \* manifest builder: the contents held by the blob service
  blog,         \* manifest builder: the blob service calls of the last Build, in order
  bret,         \* manifest builder: what the last Build returned
  bprev,        \* history: what the Build before the last returned, nothing changed since
  bcall         \* manifest builder: what the last AppendReference / SetMediaType returned

tagState == <<files, call, lk, writes, life>>

tagHistory == <<tagged, lastTag, lastApplied, accumulated, disturb, untagged>>

tagVars ==
  <<files, call, lk, writes, life, tagged, lastTag, lastApplied, accumulated, disturb, untagged>>

proxyVars == <<local, remoteTags, sched, plog, pret, pcalls, entries, now, lastAdd>>

groupVars == <<factor, grp>>

allVars == <<listed, allRet>>

confVars == <<ttlOption>>

registryVars == <<registry, made>>

rewriteVars == <<rewrite>>

builderVars == <<bld, blobs, blog, bret, bprev, bcall>>

\* what the Tag and Untag requests of the tag store leave alone
outsideTags == <<proxyVars, groupVars, allVars, confVars, registryVars, rewriteVars,
     builderVars>>

\* what the proxy and its scheduler leave alone
outsideProxy == <<tagVars, groupVars, allVars, confVars, registryVars, rewriteVars,
     builderVars>>

\* what the goroutines of a Lookup call leave alone
outsideGroup == <<tagVars, proxyVars, allVars, confVars, registryVars, rewriteVars,
     builderVars>>

\* what NewRegistry and the services of a repository leave alone
outsideRegistry == <<tagVars, proxyVars, groupVars, allVars, confVars, rewriteVars,
     builderVars>>

\* what the rewrite middleware leaves alone
outsideRewrite == <<tagVars, proxyVars, groupVars, allVars, confVars, registryVars,
     builderVars>>

\* what a manifest builder leaves alone
outsideBuilder ==
  <<tagVars, proxyVars, groupVars, allVars, confVars, registryVars, rewriteVars>>

\* what a call of All leaves alone
outsideAll == <<tagVars, proxyVars, groupVars, confVars, registryVars, rewriteVars,
     builderVars>>

\* what a Lookup among Tag and Untag requests leaves alone
otherVars ==
  <<tagged, lastTag, lastApplied, accumulated, disturb, untagged,
    local, remoteTags, sched, plog, pret, pcalls, entries, now, lastAdd,
    factor, grp, listed, allRet, ttlOption, registry, made, rewrite,
    bld, blobs, blog, bret, bprev, bcall>>

vars ==
  <<files, call, lk, writes, life, tagged, lastTag, lastApplied, accumulated, disturb, untagged,
    local, remoteTags, sched, plog, pret, pcalls, entries, now, lastAdd,
    factor, grp, listed, allRet, ttlOption, registry, made, rewrite,
    bld, blobs, blog, bret, bprev, bcall>>

\* ------------------------------------------------------------ path mapper
\* repositories/<name>/_manifests/tags/<tag>/current/link
manifestTagCurrentPath(tag) == [tag |-> tag, leaf |-> "current", rev |-> NoDigest]

\* repositories/<name>/_manifests/tags/<tag>/index/<alg>/<hex>/link
manifestTagIndexEntryLinkPath(tag, revision) ==
  [tag |-> tag, leaf |-> "index", rev |-> revision]

Paths ==
  { manifestTagCurrentPath(t) : t \in Tags }
    \cup { manifestTagIndexEntryLinkPath(t, d) : t \in Tags, d \in Digests }

\* repositories/<name>/_manifests/tags/<tag>/ : the paths below the tag directory
manifestTagPath(tag) == { p \in Paths : p.tag = tag }

\* repositories/<name>/_manifests/tags/<tag>/index/ : the tag's index directory
manifestTagIndexPath(tag) == { p \in Paths : p.tag = tag /\ p.leaf = "index" }

\* ---------------------------------------------------------- storage driver
\* PutContent(path, bytes): atomic overwrite
PutContent(fs, path, content) == [fs EXCEPT ![path] = content]

\* GetContent(path): bytes | PathNotFound
GetContent(fs, path) ==
  IF fs[path] = NoDigest
    THEN [err |-> "PathNotFound", digest |-> NoDigest]
    ELSE [err |-> "nil", digest |-> fs[path]]

\* Delete(path): recursive over the prefix; PathNotFound when nothing is there
DriverExists(fs, prefix) == \E p \in prefix : fs[p] # NoDigest

DriverDelete(fs, prefix) == [p \in Paths |-> IF p \in prefix THEN NoDigest ELSE fs[p]]

\* List(tags directory): the child directories that hold at least one object
DriverListTags(fs) == { t \in Tags : DriverExists(fs, manifestTagPath(t)) }

\* --------------------------------------------------------------- blob store
\* blobStore.link(path, dgst): writes the digest as the content of path
link(fs, path, dgst) == PutContent(fs, path, dgst)

\* blobStore.readlink(path): the digest stored at path
readlink(fs, path) == GetContent(fs, path)

\* linkedBlobStore.linkBlob(desc): link(linkPath(name, desc.Digest), desc.Digest)
linkBlob(fs, linkPath, dgst) == link(fs, linkPath, dgst)

\* linkedBlobStore.Enumerate: the digest read from every link below the directory
Enumerate(fs, dir) == { fs[p] : p \in { q \in dir : fs[q] # NoDigest } }

\* ---------------------------------------------------------------- TagStore
\* mutant: the link path leaves the revision out
tagLinkPath_IgnoresRevision(tag, dgst) ==
  manifestTagIndexEntryLinkPath(tag, CHOOSE d \in Digests : \A e \in Digests : d <= e)

\* TagStore.linkedBlobStore(tag).linkPath: the index entry link of (tag, dgst)
tagLinkPath(tag, dgst) == manifestTagIndexEntryLinkPath(tag, dgst)

\* TagStore.Get: readlink of the current link; PathNotFound is ErrTagUnknown
Get(fs, tag) ==
  LET revision == readlink(fs, manifestTagCurrentPath(tag))
  IN  IF revision.err = "PathNotFound"
        THEN [err |-> "ErrTagUnknown", digest |-> NoDigest]
        ELSE [err |-> revision.err, digest |-> revision.digest]

\* TagStore.All: the names below the tags directory (returned sorted), or
\* ErrRepositoryUnknown when the directory does not exist
All(fs) ==
  IF DriverListTags(fs) = {}
    THEN [err |-> "ErrRepositoryUnknown", tags |-> {}]
    ELSE [err |-> "nil", tags |-> DriverListTags(fs)]

\* mutant: the enumerated directory leaves the tag out
ManifestDigests_AllTags(fs, tag) == Enumerate(fs, { p \in Paths : p.leaf = "index" })

\* TagStore.ManifestDigests: Enumerate over the tag's index directory
ManifestDigests(fs, tag) == Enumerate(fs, manifestTagIndexPath(tag))

\* ------------------------------------------------------ proxy: data model
\* the tags and manifest revisions known upstream; a signed manifest carries
\* its tag and its payload
ProxyTags == {"latest", "v1"}

Revisions == {1, 2}

Manifests == [tag : ProxyTags, rev : Revisions]

NoManifest == [tag |-> "", rev |-> 0]

\* digest.FromBytes(sm.Payload()): the digest of the manifest's payload
DigestOf(sm) == <<"sha256", sm.tag, sm.rev>>

ManifestDigestSet == { DigestOf(sm) : sm \in Manifests }

\* todo(richardscothern): from cache control header (minutes)
repositoryTTL == 10

repositoryName == "library/app"

\* the configuration's proxy.ttl: not set, or a duration in minutes
TTLNotSet == [set |-> FALSE, minutes |-> 0]

TTLOptions == {TTLNotSet} \cup { [set |-> TRUE, minutes |-> m] : m \in {5, 10, 20} }

NoReturn == [op |-> "none", arg |-> <<>>, err |-> "nil", sm |-> NoManifest]

\* ManifestService.Get and Exists of a store holding the manifests in `store`
StoreHas(store, dgst) == \E sm \in store : DigestOf(sm) = dgst

StoreGet(store, dgst) == CHOOSE sm \in store : DigestOf(sm) = dgst

Call(name, ok) == [call |-> name, ok |-> ok]

\* ---------------------------------------------------------- proxy: scheduler
Max(S) == CHOOSE x \in S : \A y \in S : y <= x

\* the scheduler's add: a new key expires at now + ttl; re-adding an existing
\* key extends its expiry to max(existing, now + ttl)
SchedulerAdd(es, key, ttl, t) ==
  LET old == { e \in es : e.key = key }
  IN  (es \ old) \cup
        {[key |-> key, expiresAt |-> Max({t + ttl} \cup { e.expiresAt : e \in old })]}

\* scheduler.AddManifest(repo, ttl), as called by the proxy manifest store
AddManifest(repo, ttl) ==
  /\ sched' = Append(sched, [repo |-> repo, ttl |-> ttl])
  /\ entries' = SchedulerAdd(entries, repo, ttl, now)
  /\ lastAdd' = now

IdleCall == [st |-> "idle", tag |-> 0, dgst |-> NoDigest]

IdleLookup ==
  [st |-> "idle", dgst |-> NoDigest, pending |-> {}, out |-> <<>>, failed |-> FALSE,
   removed |-> {}, dirty |-> FALSE]

\* a Tag or Untag step on tag t as seen by a Lookup that has listed the tags
\* and is reading: the removal of a tag not yet read, or another write
LookupSees(l, t, kind) ==
  IF l.st # "reading" THEN l
  ELSE IF kind = "untag" /\ t \in l.pending
    THEN [l EXCEPT !.removed = @ \cup {t}]
    ELSE [l EXCEPT !.dirty = TRUE]

\* ------------------------------------------------ storage: registry options
\* the functional options of NewRegistry; BlobDescriptorCacheProvider is given
\* a provider or nil
RegistryOptions ==
  {"EnableRedirect", "EnableDelete", "DisableDigestResumption", "RemoveParentsOnDelete",
   "BlobDescriptorCacheProvider(provider)", "BlobDescriptorCacheProvider(nil)"}

OptionLists == UNION { [1..n -> RegistryOptions] : n \in 0..MaxOptions }

\* mutant: the flag is set on the registry and not on its blob store
EnableDelete_RegistryOnly(reg) == [reg EXCEPT !.deleteEnabled = TRUE]

\* EnableDelete
EnableDelete(reg) ==
  [reg EXCEPT !.blobStore.deleteEnabled = TRUE, !.deleteEnabled = TRUE]

\* EnableRedirect
EnableRedirect(reg) == [reg EXCEPT !.blobServer.redirect = TRUE]

\* DisableDigestResumption
DisableDigestResumption(reg) == [reg EXCEPT !.resumableDigestEnabled = FALSE]

\* RemoveParentsOnDelete
RemoveParentsOnDelete(reg) == [reg EXCEPT !.blobStore.removeParentsOnDelete = TRUE]

\* BlobDescriptorCacheProvider(provider): a cached statter when it is not nil
BlobDescriptorCacheProvider(reg, provider) ==
  IF provider # "nil"
    THEN [reg EXCEPT !.blobStore.statter = "cached", !.blobServer.statter = "cached",
                     !.blobDescriptorCacheProvider = provider]
    ELSE reg

ApplyOption(reg, option) ==
  CASE option = "EnableRedirect" -> EnableRedirect(reg)
    [] option = "EnableDelete" -> EnableDelete(reg)
    [] option = "DisableDigestResumption" -> DisableDigestResumption(reg)
    [] option = "RemoveParentsOnDelete" -> RemoveParentsOnDelete(reg)
    [] option = "BlobDescriptorCacheProvider(provider)" -> BlobDescriptorCacheProvider(reg, "provider")
    [] option = "BlobDescriptorCacheProvider(nil)" -> BlobDescriptorCacheProvider(reg, "nil")

RECURSIVE ApplyOptions(_, _)
ApplyOptions(reg, options) ==
  IF options = <<>> THEN reg
  ELSE ApplyOptions(ApplyOption(reg, Head(options)), Tail(options))

\* NewRegistry(ctx, driver, options...): the registry before and after the options
NewRegistry(options) ==
  ApplyOptions(
    [blobStore |-> [statter |-> "global", deleteEnabled |-> FALSE,
                    removeParentsOnDelete |-> FALSE],
     blobServer |-> [statter |-> "global", redirect |-> FALSE],
     blobDescriptorCacheProvider |-> "nil",
     deleteEnabled |-> FALSE,
     resumableDigestEnabled |-> TRUE],
    options)

\* repository.Manifests: the linked blob store of the manifest store
ManifestsLinkedBlobStore(reg) ==
  [deleteEnabled |-> reg.deleteEnabled,
   removeParentsOnDelete |-> reg.blobStore.removeParentsOnDelete,
   resumableDigestEnabled |-> FALSE,
   linkPathFns |-> <<"manifestRevisionLinkPath", "blobLinkPath">>]

\* repository.Manifests: the manifest store and the handlers sharing its store
RepositoryManifests(reg) ==
  LET blobStore == ManifestsLinkedBlobStore(reg)
  IN  [kind |-> "Manifests",
       stores |-> {blobStore},
       blobStore |-> blobStore,
       schema1Handler |-> blobStore,
       schema2Handler |-> blobStore,
       manifestListHandler |-> blobStore]

\* repository.Blobs: the linked blob store of the layers
RepositoryBlobs(reg) ==
  LET blobStore ==
        [deleteEnabled |-> reg.deleteEnabled,
         removeParentsOnDelete |-> reg.blobStore.removeParentsOnDelete,
         resumableDigestEnabled |-> reg.resumableDigestEnabled,
         linkPathFns |-> <<"blobLinkPath">>]
  IN  [kind |-> "Blobs", stores |-> {blobStore}, blobStore |-> blobStore]

NothingMade == [kind |-> "none", stores |-> {}]

\* ------------------------------------------------------ rewrite middleware
\* strings are sequences of tokens; "%zz" is an invalid percent escape
UrlSchemes == {"http", "https", "HTTP"}

UrlHosts == {"some.host", "example.com"}

UrlPaths ==
  { <<>>, <<"/", "file">>, <<"/", "some", "/", "path", "/", "file">>,
    <<"/", "some", "/", "%zz">> }

UrlQueries == { <<>>, <<"?", "sig=1">> }

\* the URLs the wrapped driver may return
WrappedUrls ==
  { <<scheme, "://", host>> \o path \o query :
      scheme \in UrlSchemes, host \in UrlHosts, path \in UrlPaths, query \in UrlQueries }

\* what the wrapped driver's URLFor returns
WrappedResults ==
  { [url |-> u, err |-> "nil"] : u \in WrappedUrls }
    \cup { [url |-> <<>>, err |-> "ErrUnsupportedMethod"] }

\* the values of the options "scheme", "host" and "trimpathprefix" ("": not given)
SchemeOptions == {"", "https"}

HostOptions == {"", "example.com"}

TrimOptions ==
  { <<>>, <<"/", "some", "/", "path">>, <<"/", "some", "/", "path", "/">>, <<"/", "other">> }

\* newRewriteStorageMiddleware with string options
newRewriteStorageMiddleware(scheme, host, trim) ==
  [overrideScheme |-> scheme, overrideHost |-> host, trimPathPrefix |-> trim]

ToLower(str) == IF str = "HTTP" THEN "http" ELSE str

\* the position of the first token `tok` of str at or after `from`, or Len + 1
RECURSIVE IndexFrom(_, _, _)
IndexFrom(str, tok, from) ==
  IF from > Len(str) THEN Len(str) + 1
  ELSE IF str[from] = tok THEN from
  ELSE IndexFrom(str, tok, from + 1)

\* url.Parse: scheme (lower-cased) before "://", host up to the first "/" or
\* "?", path up to "?", the raw query after it; an invalid escape in the path
\* is an error
UrlParse(str) ==
  LET q == IndexFrom(str, "?", 1)
      p == IF IndexFrom(str, "/", 1) < q THEN IndexFrom(str, "/", 1) ELSE q
      path == SubSeq(str, p, q - 1)
  IN  IF \E i \in 1..Len(path) : path[i] = "%zz"
        THEN [err |-> "invalid URL escape", u |-> [Scheme |-> "", Host |-> "", Path |-> <<>>, RawQuery |-> <<>>]]
        ELSE [err |-> "nil",
              u |-> [Scheme |-> ToLower(str[1]),
                     Host |-> str[3],
                     Path |-> path,
                     RawQuery |-> SubSeq(str, q + 1, Len(str))]]

\* URL.String: scheme://host, a "/" before a path that does not begin with
\* one, the path, and "?" with the query when there is one
UrlString(u) ==
  <<u.Scheme, "://", u.Host>>
    \o (IF u.Path # <<>> /\ Head(u.Path) # "/" /\ u.Host # "" THEN <<"/">> ELSE <<>>)
    \o u.Path
    \o (IF u.RawQuery # <<>> THEN <<"?">> \o u.RawQuery ELSE <<>>)

\* strings.HasPrefix and strings.TrimPrefix
HasPrefix(str, prefix) ==
  Len(prefix) <= Len(str) /\ SubSeq(str, 1, Len(prefix)) = prefix

TrimPrefix(str, prefix) ==
  IF HasPrefix(str, prefix) THEN SubSeq(str, Len(prefix) + 1, Len(str)) ELSE str

\* mutant: the overrides are applied without asking whether they are set
URLFor_OverridesAlways(r, wrapped) ==
  IF wrapped.err # "nil" THEN [url |-> <<>>, err |-> wrapped.err]
  ELSE IF UrlParse(wrapped.url).err # "nil"
    THEN [url |-> <<>>, err |-> UrlParse(wrapped.url).err]
  ELSE LET u == UrlParse(wrapped.url).u
       IN  [url |-> UrlString([Scheme |-> r.overrideScheme, Host |-> r.overrideHost,
                               Path |-> TrimPrefix(u.Path, r.trimPathPrefix),
                               RawQuery |-> u.RawQuery]),
            err |-> "nil"]

\* rewriteStorageMiddleware.URLFor on the wrapped driver's result
URLFor(r, wrapped) ==
  IF wrapped.err # "nil" THEN [url |-> <<>>, err |-> wrapped.err]
  ELSE IF UrlParse(wrapped.url).err # "nil"
    THEN [url |-> <<>>, err |-> UrlParse(wrapped.url).err]
  ELSE LET u0 == UrlParse(wrapped.url).u
           u1 == IF r.overrideScheme # "" THEN [u0 EXCEPT !.Scheme = r.overrideScheme] ELSE u0
           u2 == IF r.overrideHost # "" THEN [u1 EXCEPT !.Host = r.overrideHost] ELSE u1
           u3 == IF r.trimPathPrefix # <<>>
                   THEN [u2 EXCEPT !.Path = TrimPrefix(u2.Path, r.trimPathPrefix)] ELSE u2
       IN  [url |-> UrlString(u3), err |-> "nil"]

NoUrlResult == [url |-> <<>>, err |-> "none"]

\* -------------------------------------------------------- manifest builders
MediaTypeImageConfig == "application/vnd.oci.image.config.v1+json"

MediaTypeImageManifest == "application/vnd.oci.image.manifest.v1+json"

defaultMediaType == "application/vnd.docker.distribution.manifest.v2+json"

\* the configMediaType a schema2 builder may be given
ConfigMediaTypes ==
  {"application/vnd.docker.container.image.v1+json", "application/custom+json"}

\* the media type a blob service may report in the descriptor it returns
ReportedMediaTypes ==
  {"application/octet-stream", "application/vnd.docker.container.image.v1+json"}

\* configuration blobs, as byte strings
ConfigJSONs == { <<1>>, <<1, 2>> }

\* digest.FromBytes: the digest of a content, taken free of collisions
FromBytes(content) == [algorithm |-> "sha256", sum |-> content]

NoDescriptor ==
  [MediaType |-> "", Digest |-> [algorithm |-> "", sum |-> <<>>], Size |-> 0]

Descriptor(mediaType, content) ==
  [MediaType |-> mediaType, Digest |-> FromBytes(content), Size |-> Len(content)]

\* the layers a builder may be given references to
LayerDescriptors ==
  { Descriptor("application/vnd.docker.image.rootfs.diff.tar.gzip", c) : c \in { <<3>>, <<3, 4>> } }

\* what AppendReference may be handed: a Descriptor, a Describable, or neither
ReferenceArgs ==
  { [type |-> ty, descriptor |-> d] : ty \in {"Descriptor", "Describable"}, d \in LayerDescriptors }
    \cup { [type |-> "other", descriptor |-> NoDescriptor] }

\* the config descriptor the descriptor-based schema2 builder may be given
ConfigDescriptors ==
  { Descriptor(mt, c) : mt \in ConfigMediaTypes, c \in ConfigJSONs }

\* schema2.NewManifestBuilder(bs, configMediaType, configJSON)
schema2NewManifestBuilder(configMediaType, configJSON) ==
  [kind |-> "schema2", configMediaType |-> configMediaType, configJSON |-> configJSON,
   configDescriptor |-> NoDescriptor, dependencies |-> <<>>, mediaType |-> defaultMediaType]

\* ocischema.NewManifestBuilder(bs, configJSON, annotations)
ocischemaNewManifestBuilder(configJSON) ==
  [kind |-> "ocischema", configMediaType |-> "", configJSON |-> configJSON,
   configDescriptor |-> NoDescriptor, dependencies |-> <<>>,
   mediaType |-> MediaTypeImageManifest]

\* schema2.NewManifestBuilder(configDescriptor, configJSON): no blob service
descriptorNewManifestBuilder(configDescriptor, configJSON) ==
  [kind |-> "descriptor", configMediaType |-> "", configJSON |-> configJSON,
   configDescriptor |-> configDescriptor, dependencies |-> <<>>,
   mediaType |-> defaultMediaType]

Builders ==
  { schema2NewManifestBuilder(mt, c) : mt \in ConfigMediaTypes, c \in ConfigJSONs }
    \cup { ocischemaNewManifestBuilder(c) : c \in ConfigJSONs }
    \cup { descriptorNewManifestBuilder(d, c) : d \in ConfigDescriptors, c \in ConfigJSONs }

\* how a call of the blob service goes: it fails, or it answers and reports
\* a media type in its descriptor
BlobOutcomes == [fails : BOOLEAN, mediaType : ReportedMediaTypes]

\* BlobService.Stat: the descriptor of a stored content, or ErrBlobUnknown
BlobStat(store, dgst, outcome) ==
  IF outcome.fails THEN [err |-> "stat unavailable", desc |-> NoDescriptor]
  ELSE IF \E c \in store : FromBytes(c) = dgst
    THEN [err |-> "nil",
          desc |-> Descriptor(outcome.mediaType, CHOOSE c \in store : FromBytes(c) = dgst)]
    ELSE [err |-> "ErrBlobUnknown", desc |-> NoDescriptor]

\* BlobService.Put: stores the content and returns its descriptor
BlobPut(store, mediaType, content, outcome) ==
  IF outcome.fails
    THEN [err |-> "put failed", desc |-> NoDescriptor, store |-> store]
    ELSE [err |-> "nil", desc |-> Descriptor(outcome.mediaType, content),
          store |-> store \cup {content}]

\* a call of the blob service as the log keeps it: its error and descriptor
BlobCall(name, result) == [call |-> name, err |-> result.err, desc |-> result.desc]

NilManifest ==
  [Manifest |-> [SchemaVersion |-> 0, MediaType |-> "", Config |-> NoDescriptor,
                 Layers |-> <<>>],
   canonical |-> <<>>]

\* FromStruct: the manifest with its canonical JSON form
FromStruct(m) ==
  [err |-> "nil",
   manifest |-> [Manifest |-> m,
                 canonical |-> <<"schemaVersion", m.SchemaVersion, "mediaType", m.MediaType,
                                 "config", m.Config, "layers", m.Layers>>]]

\* the media type a builder describes its configuration with
BuilderConfigMediaType(mb) ==
  IF mb.kind = "ocischema" THEN MediaTypeImageConfig ELSE mb.configMediaType

\* mutant: the descriptor of the blob service is used as it is
OverrideMediaType_Keeps(desc, mediaType) == desc

\* m.Config.MediaType = configMediaType
OverrideMediaType(desc, mediaType) == [desc EXCEPT !.MediaType = mediaType]

\* the Manifest a Build starts from: the layers are a copy of the references
NewManifest(mb) ==
  [SchemaVersion |-> 2, MediaType |-> mb.mediaType, Config |-> NoDescriptor,
   Layers |-> mb.dependencies]

\* mutant: the configuration is Put without asking Stat's answer
Build_PutsAlways(mb, store, stat, put) ==
  IF mb.kind = "descriptor"
    THEN [ret |-> FromStruct([NewManifest(mb) EXCEPT !.Config = mb.configDescriptor]),
          calls |-> <<>>, blobs |-> store]
  ELSE LET st == BlobStat(store, FromBytes(mb.configJSON), stat)
           pt == BlobPut(store, BuilderConfigMediaType(mb), mb.configJSON, put)
       IN  [ret |-> IF pt.err # "nil" THEN [err |-> pt.err, manifest |-> NilManifest]
                    ELSE FromStruct([NewManifest(mb) EXCEPT
                           !.Config = OverrideMediaType(pt.desc, BuilderConfigMediaType(mb))]),
            calls |-> <<BlobCall("bs.Stat", st), BlobCall("bs.Put", pt)>>,
            blobs |-> pt.store]

\* mutant: an error of Stat is taken for ErrBlobUnknown
Build_PutsAfterStatError(mb, store, stat, put) ==
  IF mb.kind = "descriptor"
    THEN [ret |-> FromStruct([NewManifest(mb) EXCEPT !.Config = mb.configDescriptor]),
          calls |-> <<>>, blobs |-> store]
  ELSE LET st == BlobStat(store, FromBytes(mb.configJSON), stat)
           pt == BlobPut(store, BuilderConfigMediaType(mb), mb.configJSON, put)
       IN  IF st.err = "nil"
             THEN [ret |-> FromStruct([NewManifest(mb) EXCEPT
                             !.Config = OverrideMediaType(st.desc, BuilderConfigMediaType(mb))]),
                   calls |-> <<BlobCall("bs.Stat", st)>>, blobs |-> store]
           ELSE [ret |-> IF pt.err # "nil" THEN [err |-> pt.err, manifest |-> NilManifest]
                         ELSE FromStruct([NewManifest(mb) EXCEPT
                                !.Config = OverrideMediaType(pt.desc, BuilderConfigMediaType(mb))]),
                 calls |-> <<BlobCall("bs.Stat", st), BlobCall("bs.Put", pt)>>,
                 blobs |-> pt.store]

\* Build of the three builders: what it returns, the blob service calls it
\* makes in order, and the blob service's contents afterwards
Build(mb, store, stat, put) ==
  IF mb.kind = "descriptor"
    THEN [ret |-> FromStruct([NewManifest(mb) EXCEPT !.Config = mb.configDescriptor]),
          calls |-> <<>>, blobs |-> store]
  ELSE LET st == BlobStat(store, FromBytes(mb.configJSON), stat)
           pt == BlobPut(store, BuilderConfigMediaType(mb), mb.configJSON, put)
       IN  IF st.err = "nil"
             THEN [ret |-> FromStruct([NewManifest(mb) EXCEPT
                             !.Config = OverrideMediaType(st.desc, BuilderConfigMediaType(mb))]),
                   calls |-> <<BlobCall("bs.Stat", st)>>, blobs |-> store]
           ELSE IF st.err # "ErrBlobUnknown"
             THEN [ret |-> [err |-> st.err, manifest |-> NilManifest],
                   calls |-> <<BlobCall("bs.Stat", st)>>, blobs |-> store]
           ELSE [ret |-> IF pt.err # "nil" THEN [err |-> pt.err, manifest |-> NilManifest]
                         ELSE FromStruct([NewManifest(mb) EXCEPT
                                !.Config = OverrideMediaType(pt.desc, BuilderConfigMediaType(mb))]),
                 calls |-> <<BlobCall("bs.Stat", st), BlobCall("bs.Put", pt)>>,
                 blobs |-> pt.store]

NoBuildReturn == [err |-> "none", manifest |-> NilManifest]

NoBuilderCall == [op |-> "none", err |-> "nil"]

\* --------------------------------------------------------- All: the listing
\* tag names are strings, here sequences of the bytes 1 and 2, up to two long
TagNames == { <<1>>, <<2>>, <<1, 1>>, <<1, 2>>, <<2, 1>>, <<2, 2>> }

\* the tags directory: repositories/<name>/_manifests/tags
tagsDirectory == "tags"

\* the lists the driver's List may return for the tags directory: the path of
\* each child once, in any order
Listings ==
  { l \in UNION { [1..n -> TagNames] : n \in 0..MaxEntries } :
      \A i, j \in 1..Len(l) : l[i] = l[j] => i = j }

ListResults ==
  { [err |-> "nil", entries |-> [i \in 1..Len(l) |-> [dir |-> tagsDirectory, file |-> l[i]]]] :
      l \in Listings }
    \cup { [err |-> e, entries |-> <<>>] : e \in {"PathNotFound", "EIO"} }

\* path.Split(entry): the directory and the file name
PathSplit(entry) == <<entry.dir, entry.file>>

\* a < b for Go strings: byte-wise lexicographic
StringLess(a, b) ==
  \/ Len(a) < Len(b) /\ \A i \in 1..Len(a) : a[i] = b[i]
  \/ \E i \in 1..Len(a) :
       /\ i <= Len(b)
       /\ \A j \in 1..(i - 1) : a[j] = b[j]
       /\ a[i] < b[i]

RECURSIVE SortInsert(_, _)
SortInsert(x, sorted) ==
  IF sorted = <<>> THEN <<x>>
  ELSE IF StringLess(Head(sorted), x) THEN <<Head(sorted)>> \o SortInsert(x, Tail(sorted))
  ELSE <<x>> \o sorted

\* sort.Strings
RECURSIVE SortStrings(_)
SortStrings(strs) ==
  IF strs = <<>> THEN <<>> ELSE SortInsert(Head(strs), SortStrings(Tail(strs)))

\* mutant: the names are returned in the order of the listing
AllOf_Unsorted(res) ==
  IF res.err = "PathNotFound" THEN [err |-> "ErrRepositoryUnknown", tags |-> <<>>]
  ELSE IF res.err # "nil" THEN [err |-> res.err, tags |-> <<>>]
  ELSE [err |-> "nil", tags |-> [i \in 1..Len(res.entries) |-> PathSplit(res.entries[i])[2]]]

\* TagStore.All on the result of driver.List: PathNotFound is
\* ErrRepositoryUnknown, another error is returned as it is, and the file names
\* of the entries are returned sorted
AllOf(res) ==
  IF res.err = "PathNotFound" THEN [err |-> "ErrRepositoryUnknown", tags |-> <<>>]
  ELSE IF res.err # "nil" THEN [err |-> res.err, tags |-> <<>>]
  ELSE [err |-> "nil",
        tags |-> SortStrings([i \in 1..Len(res.entries) |-> PathSplit(res.entries[i])[2]])]

\* ------------------------------------------------- Lookup: the goroutines
\* the values of STORAGE_TAGSTORE_LOOKUP_CONCURRENCY ("": not set)
EnvValues == {"", "many", "-1", "0", "1", "2", "3"}

\* strconv.Atoi over the values of the environment
Atoi(str) ==
  CASE str = "-1" -> [err |-> FALSE, n |-> -1]
    [] str = "0" -> [err |-> FALSE, n |-> 0]
    [] str = "1" -> [err |-> FALSE, n |-> 1]
    [] str = "2" -> [err |-> FALSE, n |-> 2]
    [] str = "3" -> [err |-> FALSE, n |-> 3]
    [] OTHER -> [err |-> TRUE, n |-> 0]

defaultLookupConcurrencyFactor == 64

\* NewStore: the lookup concurrency factor taken from the environment
NewStore(env) ==
  IF Atoi(env).err THEN defaultLookupConcurrencyFactor ELSE Atoi(env).n

GroupTags == 1..MaxTags

\* what readlink returns to a reader goroutine: a digest, PathNotFound, or
\* another error of the driver (or of the cancelled context)
ReadOutcomes ==
  { [err |-> "nil", digest |-> d] : d \in Digests }
    \cup { [err |-> e, digest |-> NoDigest] : e \in {"PathNotFound", "EIO"} }

IdleGroup ==
  [st |-> "idle", dgst |-> NoDigest, all |-> {}, spawner |-> "none",
   reader |-> [t \in GroupTags |-> "none"], err |-> FALSE, closed |-> FALSE,
   out |-> <<>>, ret |-> [err |-> "nil", tags |-> <<>>]]

\* the reader goroutines holding a slot of the group: started and not returned
Active == { t \in GroupTags : grp.reader[t] \in {"reading", "sending"} }

\* the reader goroutines inside readlink
InFlight == { t \in GroupTags : grp.reader[t] = "reading" }

\* mutant: the group is never given a limit
GoAdmits_NoLimit(limit, active) == TRUE

\* errgroup.Group.SetLimit(limit) and Go: a negative limit is no limit; else Go
\* blocks while `limit` goroutines are active (forever when the limit is 0)
GoAdmits(limit, active) == limit < 0 \/ active < limit

Init ==
  /\ files = [p \in Paths |-> NoDigest]
  /\ call = [p \in Callers |-> IdleCall]
  /\ lk = IdleLookup
  /\ writes = 0
  /\ life = [t \in Tags |-> "never"]
  /\ tagged = [t \in Tags |-> {}]
  /\ lastTag = [t \in Tags |-> NoDigest]
  /\ lastApplied = [t \in Tags |-> NoDigest]
  /\ accumulated = [t \in Tags |-> {}]
  /\ disturb = [p \in Callers |-> "none"]
  /\ untagged = {}
  /\ local = {}
  /\ remoteTags = [t \in ProxyTags |-> NoManifest]
  /\ sched = <<>>
  /\ plog = <<>>
  /\ pret = NoReturn
  /\ pcalls = 0
  /\ entries = {}
  /\ now = 0
  /\ lastAdd = 0
  /\ factor = NewStore("")
  /\ grp = IdleGroup
  /\ listed = [err |-> "PathNotFound", entries |-> <<>>]
  /\ allRet = [err |-> "none", tags |-> <<>>]
  /\ ttlOption = TTLNotSet
  /\ registry = [options |-> <<>>, reg |-> NewRegistry(<<>>)]
  /\ made = NothingMade
  /\ rewrite = [r |-> newRewriteStorageMiddleware("", "", <<>>),
                wrapped |-> NoUrlResult, ret |-> NoUrlResult]
  /\ bld = ocischemaNewManifestBuilder(<<1>>)
  /\ blobs = {}
  /\ blog = <<>>
  /\ bret = NoBuildReturn
  /\ bprev = NoBuildReturn
  /\ bcall = NoBuilderCall

\* mutant: the first write of Tag goes to the current link, not to the index
TagLinkBlob_WritesCurrent(p, t, d, ok) ==
  /\ call[p].st = "idle"
  /\ lk.st # "done"
  /\ writes < MaxWrites
  /\ writes' = writes + 1
  /\ files' = IF ok THEN link(files, manifestTagCurrentPath(t), d) ELSE files
  /\ call' = [call EXCEPT ![p] = IF ok THEN [st |-> "linked", tag |-> t, dgst |-> d]
                                       ELSE IdleCall]
  /\ lk' = LookupSees(lk, t, "tag")
  /\ life' = [life EXCEPT ![t] = "touched"]

\* TagStore.Tag, first backend call: lbs.linkBlob(desc) links into the index.
\* ok = FALSE: the driver fails the write and Tag returns the error.
TagLinkBlob(p, t, d, ok) ==
  /\ call[p].st = "idle"
  /\ lk.st # "done"
  /\ writes < MaxWrites
  /\ writes' = writes + 1
  /\ files' = IF ok THEN linkBlob(files, tagLinkPath(t, d), d) ELSE files
  /\ call' = [call EXCEPT ![p] = IF ok THEN [st |-> "linked", tag |-> t, dgst |-> d]
                                       ELSE IdleCall]
  /\ lk' = LookupSees(lk, t, "tag")
  /\ life' = [life EXCEPT ![t] = "touched"]

\* mutant: Tag returns after linking into the index, the current link unwritten
TagLinkCurrent_SkipsWrite(p, ok) ==
  /\ call[p].st = "linked"
  /\ lk.st # "done"
  /\ files' = files
  /\ call' = [call EXCEPT ![p] = IF ok THEN [call[p] EXCEPT !.st = "written"] ELSE IdleCall]
  /\ lk' = LookupSees(lk, call[p].tag, "tag")
  /\ life' = [life EXCEPT ![call[p].tag] = "touched"]
  /\ UNCHANGED writes

\* mutant: the current link is created when absent and never overwritten
TagLinkCurrent_CreateOnly(p, ok) ==
  /\ call[p].st = "linked"
  /\ lk.st # "done"
  /\ files' = IF ok /\ files[manifestTagCurrentPath(call[p].tag)] = NoDigest
                THEN link(files, manifestTagCurrentPath(call[p].tag), call[p].dgst)
                ELSE files
  /\ call' = [call EXCEPT ![p] = IF ok THEN [call[p] EXCEPT !.st = "written"] ELSE IdleCall]
  /\ lk' = LookupSees(lk, call[p].tag, "tag")
  /\ life' = [life EXCEPT ![call[p].tag] = "touched"]
  /\ UNCHANGED writes

\* TagStore.Tag, second backend call: blobStore.link(currentPath, desc.Digest)
\* overwrites the current link.  ok = FALSE: the write fails (or the process
\* dies before it) and the call ends with the index entry alone written.
TagLinkCurrent(p, ok) ==
  /\ call[p].st = "linked"
  /\ lk.st # "done"
  /\ files' = IF ok THEN link(files, manifestTagCurrentPath(call[p].tag), call[p].dgst)
                    ELSE files
  /\ call' = [call EXCEPT ![p] = IF ok THEN [call[p] EXCEPT !.st = "written"] ELSE IdleCall]
  /\ lk' = LookupSees(lk, call[p].tag, "tag")
  /\ life' = [life EXCEPT ![call[p].tag] = "touched"]
  /\ UNCHANGED writes

\* TagStore.Tag returns nil to its caller
TagReturn(p) ==
  /\ call[p].st = "written"
  /\ lk.st # "done"
  /\ call' = [call EXCEPT ![p] = IdleCall]
  /\ UNCHANGED <<files, lk, writes, life>>

\* mutant: Untag deletes the tags directory of the repository
Untag_DeletesTagsRoot(t) ==
  /\ DriverExists(files, manifestTagPath(t))
  /\ lk.st # "done"
  /\ writes < MaxWrites
  /\ writes' = writes + 1
  /\ files' = DriverDelete(files, Paths)
  /\ lk' = LookupSees(lk, t, "untag")
  /\ life' = [life EXCEPT ![t] = "untagged"]
  /\ UNCHANGED call

\* TagStore.Untag: driver.Delete of the tag directory; when the directory is
\* not there Delete fails with PathNotFound and nothing changes
Untag(t) ==
  /\ DriverExists(files, manifestTagPath(t))
  /\ lk.st # "done"
  /\ writes < MaxWrites
  /\ writes' = writes + 1
  /\ files' = DriverDelete(files, manifestTagPath(t))
  /\ lk' = LookupSees(lk, t, "untag")
  /\ life' = [life EXCEPT ![t] = "untagged"]
  /\ UNCHANGED call

\* mutant: the digest read is not compared with desc.Digest
LookupVerdict_NoCompare(tagDigest, dgst) ==
  IF tagDigest.err = "PathNotFound" THEN "skip"
  ELSE IF tagDigest.err # "nil" THEN "error"
  ELSE "emit"

\* mutant: PathNotFound counts as an error
LookupVerdict_NotFoundIsError(tagDigest, dgst) ==
  IF tagDigest.err # "nil" THEN "error"
  ELSE IF tagDigest.digest = dgst THEN "emit"
  ELSE "skip"

\* TagStore.Lookup, one reader goroutine's verdict on the link it read:
\* PathNotFound does not count as an error, any other error does, and the tag
\* is sent to the output channel when its digest equals desc.Digest
LookupVerdict(tagDigest, dgst) ==
  IF tagDigest.err = "PathNotFound" THEN "skip"
  ELSE IF tagDigest.err # "nil" THEN "error"
  ELSE IF tagDigest.digest = dgst THEN "emit"
  ELSE "skip"

\* TagStore.Lookup, the link a reader goroutine reads for a listed tag
LookupReadLink(fs, tag) == readlink(fs, manifestTagCurrentPath(tag))

\* TagStore.Lookup, first backend call: ts.All lists the tags; an unknown
\* repository is an empty list.  The reader goroutines are then started.
LookupAll(d) ==
  /\ lk.st = "idle"
  /\ lk' = [IdleLookup EXCEPT !.st = "reading", !.dgst = d, !.pending = All(files).tags]
  /\ UNCHANGED <<files, call, writes, life>>

\* TagStore.Lookup, one reader goroutine: readlink of the tag's current link
LookupRead(t) ==
  /\ lk.st = "reading"
  /\ t \in lk.pending
  /\ LET verdict == LookupVerdict(LookupReadLink(files, t), lk.dgst)
     IN  lk' = [lk EXCEPT
                  !.pending = @ \ {t},
                  !.out = IF verdict = "emit" THEN Append(@, t) ELSE @,
                  !.failed = @ \/ verdict = "error"]
  /\ UNCHANGED <<files, call, writes, life>>

\* TagStore.Lookup returns once every reader has finished and the channel is
\* closed: the collected tags, or the group's error and no tags
LookupReturn ==
  /\ lk.st = "reading"
  /\ lk.pending = {}
  /\ lk' = [lk EXCEPT !.st = "done", !.out = IF lk.failed THEN <<>> ELSE @]
  /\ UNCHANGED <<files, call, writes, life>>

\* ------------------------------------------------- history of the tag store
\* a writer step on tag t by caller p (0: Untag) of kind "tag" or "untag" is
\* recorded for every other Tag call in flight on t
Disturbed(p, t, kind) ==
  [q \in Callers |->
     IF q # p /\ call[q].st # "idle" /\ call[q].tag = t
       THEN IF kind = "untag" \/ disturb[q] = "untag" THEN "untag" ELSE "tag"
       ELSE disturb[q]]

RecordTagLinkBlob(p, t, d) ==
  /\ tagged' = [tagged EXCEPT ![t] = @ \cup {d}]
  /\ lastTag' = [lastTag EXCEPT ![t] = NoDigest]
  /\ disturb' = [Disturbed(p, t, "tag") EXCEPT ![p] = "none"]
  /\ UNCHANGED <<lastApplied, accumulated, untagged>>

RecordTagLinkCurrent(p, ok) ==
  /\ lastApplied' = [lastApplied EXCEPT ![call[p].tag] = IF ok THEN call[p].dgst ELSE @]
  /\ lastTag' = [lastTag EXCEPT ![call[p].tag] = NoDigest]
  /\ disturb' = [Disturbed(p, call[p].tag, "tag") EXCEPT ![p] = IF ok THEN @ ELSE "none"]
  /\ UNCHANGED <<tagged, accumulated, untagged>>

RecordTagReturn(p) ==
  /\ lastTag' = [lastTag EXCEPT
                   ![call[p].tag] = IF disturb[p] = "none" THEN call[p].dgst ELSE NoDigest]
  /\ accumulated' = [accumulated EXCEPT
                       ![call[p].tag] = IF disturb[p] = "untag" THEN @ ELSE @ \cup {call[p].dgst}]
  /\ disturb' = [disturb EXCEPT ![p] = "none"]
  /\ UNCHANGED <<tagged, lastApplied, untagged>>

RecordUntag(t) ==
  /\ lastTag' = [lastTag EXCEPT ![t] = NoDigest]
  /\ lastApplied' = [lastApplied EXCEPT ![t] = NoDigest]
  /\ accumulated' = [accumulated EXCEPT ![t] = {}]
  /\ disturb' = Disturbed(0, t, "untag")
  /\ untagged' = untagged \cup {t}
  /\ UNCHANGED tagged

\* ------------------------------------------------------ proxyManifestStore
\* every handler runs to completion in one step; its inputs are the argument
\* and the outcome of each collaborator call it may make

\* mutant: Put is handed to the local manifest service
ProxyPut_Delegates(sm) ==
  /\ pcalls < MaxProxyCalls
  /\ pcalls' = pcalls + 1
  /\ plog' = <<Call("local.Put", TRUE)>>
  /\ local' = local \cup {sm}
  /\ pret' = [op |-> "Put", arg |-> DigestOf(sm), err |-> "nil", sm |-> NoManifest]
  /\ UNCHANGED <<remoteTags, sched, entries, now, lastAdd>>

\* proxyManifestStore.Put: not supported
ProxyPut(sm) ==
  /\ pcalls < MaxProxyCalls
  /\ pcalls' = pcalls + 1
  /\ plog' = <<>>
  /\ pret' = [op |-> "Put", arg |-> DigestOf(sm), err |-> "Not supported", sm |-> NoManifest]
  /\ UNCHANGED <<local, remoteTags, sched, entries, now, lastAdd>>

\* proxyManifestStore.Delete: not supported
ProxyDelete(dgst) ==
  /\ pcalls < MaxProxyCalls
  /\ pcalls' = pcalls + 1
  /\ plog' = <<>>
  /\ pret' = [op |-> "Delete", arg |-> dgst, err |-> "Not supported", sm |-> NoManifest]
  /\ UNCHANGED <<local, remoteTags, sched, entries, now, lastAdd>>

\* mutant: the eviction is scheduled before the local Put, whatever its outcome
ProxyGet_SchedulesFirst(dgst, localOk, remoteOk, putOk) ==
  /\ pcalls < MaxProxyCalls
  /\ pcalls' = pcalls + 1
  /\ UNCHANGED <<remoteTags, now>>
  /\ LET localHit == localOk /\ StoreHas(local, dgst)
         remoteHit == remoteOk /\ StoreHas(Manifests, dgst)
         sm == StoreGet(Manifests, dgst)
         ret(err, m) == [op |-> "Get", arg |-> dgst, err |-> err, sm |-> m]
     IN  IF localHit THEN
           /\ plog' = <<Call("local.Get", TRUE)>>
           /\ pret' = ret("nil", StoreGet(local, dgst))
           /\ UNCHANGED <<local, sched, entries, lastAdd>>
         ELSE IF ~remoteHit THEN
           /\ plog' = <<Call("local.Get", FALSE), Call("remote.Get", FALSE)>>
           /\ pret' = ret("remote", NoManifest)
           /\ UNCHANGED <<local, sched, entries, lastAdd>>
         ELSE
           /\ plog' = <<Call("local.Get", FALSE), Call("remote.Get", TRUE),
                        Call("scheduler.AddManifest", TRUE), Call("local.Put", putOk)>>
           /\ local' = IF putOk THEN local \cup {sm} ELSE local
           /\ AddManifest(repositoryName, repositoryTTL)
           /\ pret' = IF putOk THEN ret("nil", sm) ELSE ret("local.Put", NoManifest)

\* mutant: a fetched manifest is stored locally and its eviction never scheduled
ProxyGet_SkipsSchedule(dgst, localOk, remoteOk, putOk) ==
  /\ pcalls < MaxProxyCalls
  /\ pcalls' = pcalls + 1
  /\ UNCHANGED <<remoteTags, now>>
  /\ LET localHit == localOk /\ StoreHas(local, dgst)
         remoteHit == remoteOk /\ StoreHas(Manifests, dgst)
         sm == StoreGet(Manifests, dgst)
         ret(err, m) == [op |-> "Get", arg |-> dgst, err |-> err, sm |-> m]
     IN  IF localHit THEN
           /\ plog' = <<Call("local.Get", TRUE)>>
           /\ pret' = ret("nil", StoreGet(local, dgst))
           /\ UNCHANGED <<local, sched, entries, lastAdd>>
         ELSE IF ~remoteHit THEN
           /\ plog' = <<Call("local.Get", FALSE), Call("remote.Get", FALSE)>>
           /\ pret' = ret("remote", NoManifest)
           /\ UNCHANGED <<local, sched, entries, lastAdd>>
         ELSE
           /\ plog' = <<Call("local.Get", FALSE), Call("remote.Get", TRUE),
                        Call("local.Put", putOk)>>
           /\ local' = IF putOk THEN local \cup {sm} ELSE local
           /\ pret' = IF putOk THEN ret("nil", sm) ELSE ret("local.Put", NoManifest)
           /\ UNCHANGED <<sched, entries, lastAdd>>

\* proxyManifestStore.Get(dgst).  localOk: the local read does not fail for a
\* reason of its own; remoteOk: upstream answers; putOk: the local Put succeeds
ProxyGet(dgst, localOk, remoteOk, putOk) ==
  /\ pcalls < MaxProxyCalls
  /\ pcalls' = pcalls + 1
  /\ UNCHANGED <<remoteTags, now>>
  /\ LET localHit == localOk /\ StoreHas(local, dgst)
         remoteHit == remoteOk /\ StoreHas(Manifests, dgst)
         sm == StoreGet(Manifests, dgst)
         ret(err, m) == [op |-> "Get", arg |-> dgst, err |-> err, sm |-> m]
     IN  IF localHit THEN
           /\ plog' = <<Call("local.Get", TRUE)>>
           /\ pret' = ret("nil", StoreGet(local, dgst))
           /\ UNCHANGED <<local, sched, entries, lastAdd>>
         ELSE IF ~remoteHit THEN
           /\ plog' = <<Call("local.Get", FALSE), Call("remote.Get", FALSE)>>
           /\ pret' = ret("remote", NoManifest)
           /\ UNCHANGED <<local, sched, entries, lastAdd>>
         ELSE IF ~putOk THEN
           /\ plog' = <<Call("local.Get", FALSE), Call("remote.Get", TRUE),
                        Call("local.Put", FALSE)>>
           /\ pret' = ret("local.Put", NoManifest)
           /\ UNCHANGED <<local, sched, entries, lastAdd>>
         ELSE
           /\ plog' = <<Call("local.Get", FALSE), Call("remote.Get", TRUE),
                        Call("local.Put", TRUE), Call("scheduler.AddManifest", TRUE)>>
           /\ local' = local \cup {sm}
           /\ AddManifest(repositoryName, repositoryTTL)
           /\ pret' = ret("nil", sm)

\* mutant: a manifest cached locally for the tag is served without asking upstream
ProxyGetByTag_LocalFirst(tag, remoteOk, payloadOk, existsOk, putOk) ==
  /\ pcalls < MaxProxyCalls
  /\ pcalls' = pcalls + 1
  /\ UNCHANGED <<remoteTags, now>>
  /\ LET sm == remoteTags[tag]
         cached == { m \in local : m.tag = tag }
         ret(err, m) == [op |-> "GetByTag", arg |-> tag, err |-> err, sm |-> m]
     IN  IF cached # {} THEN
           /\ plog' = <<Call("local.GetByTag", TRUE)>>
           /\ pret' = ret("nil", CHOOSE m \in cached : TRUE)
           /\ UNCHANGED <<local, sched, entries, lastAdd>>
         ELSE IF ~remoteOk \/ sm = NoManifest \/ ~payloadOk \/ ~existsOk \/ ~putOk THEN
           /\ plog' = <<Call("remote.GetByTag", FALSE)>>
           /\ pret' = ret("remote", NoManifest)
           /\ UNCHANGED <<local, sched, entries, lastAdd>>
         ELSE
           /\ plog' = <<Call("remote.GetByTag", TRUE), Call("local.Exists", TRUE),
                        Call("local.Put", TRUE), Call("scheduler.AddManifest", TRUE)>>
           /\ local' = local \cup {sm}
           /\ AddManifest(repositoryName, repositoryTTL)
           /\ pret' = ret("nil", sm)

\* proxyManifestStore.GetByTag(tag).  remoteOk: upstream answers; payloadOk:
\* sm.Payload() and digest.FromBytes succeed; existsOk: the local Exists does
\* not fail; putOk: the local Put succeeds
ProxyGetByTag(tag, remoteOk, payloadOk, existsOk, putOk) ==
  /\ pcalls < MaxProxyCalls
  /\ pcalls' = pcalls + 1
  /\ UNCHANGED <<remoteTags, now>>
  /\ LET sm == remoteTags[tag]
         digestFromRemote == DigestOf(sm)
         ret(err, m) == [op |-> "GetByTag", arg |-> tag, err |-> err, sm |-> m]
     IN  IF ~remoteOk \/ sm = NoManifest THEN
           /\ plog' = <<Call("remote.GetByTag", FALSE)>>
           /\ pret' = ret("remote", NoManifest)
           /\ UNCHANGED <<local, sched, entries, lastAdd>>
         ELSE IF ~payloadOk THEN
           /\ plog' = <<Call("remote.GetByTag", TRUE)>>
           /\ pret' = ret("payload", NoManifest)
           /\ UNCHANGED <<local, sched, entries, lastAdd>>
         ELSE IF ~existsOk THEN
           /\ plog' = <<Call("remote.GetByTag", TRUE), Call("local.Exists", FALSE)>>
           /\ pret' = ret("local.Exists", NoManifest)
           /\ UNCHANGED <<local, sched, entries, lastAdd>>
         ELSE IF StoreHas(local, digestFromRemote) THEN
           /\ plog' = <<Call("remote.GetByTag", TRUE), Call("local.Exists", TRUE)>>
           /\ pret' = ret("nil", sm)
           /\ UNCHANGED <<local, sched, entries, lastAdd>>
         ELSE IF ~putOk THEN
           /\ plog' = <<Call("remote.GetByTag", TRUE), Call("local.Exists", TRUE),
                        Call("local.Put", FALSE)>>
           /\ pret' = ret("local.Put", NoManifest)
           /\ UNCHANGED <<local, sched, entries, lastAdd>>
         ELSE
           /\ plog' = <<Call("remote.GetByTag", TRUE), Call("local.Exists", TRUE),
                        Call("local.Put", TRUE), Call("scheduler.AddManifest", TRUE)>>
           /\ local' = local \cup {sm}
           /\ AddManifest(repositoryName, repositoryTTL)
           /\ pret' = ret("nil", sm)

\* upstream: a push moves a tag to another manifest of that tag
RemotePush(sm) ==
  /\ remoteTags[sm.tag] # sm
  /\ remoteTags' = [remoteTags EXCEPT ![sm.tag] = sm]
  /\ UNCHANGED <<local, sched, plog, pret, pcalls, entries, now, lastAdd>>

\* the scheduler's worker wakes when the next entry expires: it invokes
\* onExpire, which removes the repository's manifests from the local store, and
\* pops the entry
SchedulerExpire ==
  /\ \E e \in entries :
       /\ e.expiresAt <= now
       /\ \A f \in entries : e.expiresAt <= f.expiresAt
       /\ entries' = entries \ {e}
       /\ local' = IF e.key = repositoryName THEN {} ELSE local
  /\ UNCHANGED <<remoteTags, sched, plog, pret, pcalls, now, lastAdd>>

\* a minute passes; the worker does not sleep past an expiry
Tick ==
  /\ now < MaxTime
  /\ \A e \in entries : now < e.expiresAt
  /\ now' = now + 1
  /\ UNCHANGED <<local, remoteTags, sched, plog, pret, pcalls, entries, lastAdd>>

\* the handlers' failures leave the local store and the scheduler alone: the
\* clock runs among requests whose remote and local writes succeed
\* ------------------------------------------------- Lookup: the goroutines
\* NewStore builds the tag store with the environment's concurrency factor
NewStoreEnv(env) ==
  /\ grp.st = "idle"
  /\ factor' = NewStore(env)
  /\ UNCHANGED grp

\* Lookup: ts.All has listed the tags `all`; the channel and the group are
\* made, the limit is set and the spawner goroutine is started
GroupLookupStart(all, dgst) ==
  /\ grp.st = "idle"
  /\ grp' = [IdleGroup EXCEPT !.st = "running", !.dgst = dgst, !.all = all,
                              !.spawner = "loop"]
  /\ UNCHANGED factor

\* the spawner: group.Go for the next tag of allTags, once the limit admits it
GroupGo(t) ==
  /\ grp.st = "running" /\ grp.spawner = "loop"
  /\ t \in grp.all /\ grp.reader[t] = "none"
  /\ \A u \in grp.all : u < t => grp.reader[u] # "none"
  /\ GoAdmits(factor, Cardinality(Active))
  /\ grp' = [grp EXCEPT !.reader[t] = "reading"]
  /\ UNCHANGED factor

\* the spawner leaves the loop and waits for the group
GroupLoopEnd ==
  /\ grp.st = "running" /\ grp.spawner = "loop"
  /\ \A t \in grp.all : grp.reader[t] # "none"
  /\ grp' = [grp EXCEPT !.spawner = "wait"]
  /\ UNCHANGED factor

\* a reader: readlink returns; the goroutine returns (nil or the error, which
\* the group keeps when it is the first), or goes on to send the tag
GroupRead(t, tagDigest) ==
  /\ grp.reader[t] = "reading"
  /\ LET verdict == LookupVerdict(tagDigest, grp.dgst)
     IN  grp' = [grp EXCEPT
                   !.reader[t] = IF verdict = "emit" THEN "sending" ELSE "done",
                   !.err = @ \/ verdict = "error"]
  /\ UNCHANGED factor

\* a reader's send on the unbuffered channel meets the caller's receive
GroupSend(t) ==
  /\ grp.reader[t] = "sending"
  /\ grp.st = "running" /\ ~grp.closed
  /\ grp' = [grp EXCEPT !.reader[t] = "done", !.out = Append(@, t)]
  /\ UNCHANGED factor

\* the spawner: group.Wait returns when every goroutine has; close(outputChan)
GroupClose ==
  /\ grp.st = "running" /\ grp.spawner = "wait"
  /\ Active = {}
  /\ grp' = [grp EXCEPT !.spawner = "done", !.closed = TRUE]
  /\ UNCHANGED factor

\* the caller: the range over the closed channel ends, group.Wait returns the
\* group's error, and Lookup returns the error or the tags
GroupReturn ==
  /\ grp.st = "running" /\ grp.closed
  /\ grp' = [grp EXCEPT
                !.st = "returned",
                !.ret = IF grp.err THEN [err |-> "error", tags |-> <<>>]
                                   ELSE [err |-> "nil", tags |-> grp.out]]
  /\ UNCHANGED factor

NextGroup ==
  \/ \E env \in EnvValues : NewStoreEnv(env) /\ UNCHANGED outsideGroup
  \/ \E all \in SUBSET GroupTags, dgst \in Digests :
        GroupLookupStart(all, dgst) /\ UNCHANGED outsideGroup
  \/ \E t \in GroupTags : GroupGo(t) /\ UNCHANGED outsideGroup
  \/ GroupLoopEnd /\ UNCHANGED outsideGroup
  \/ \E t \in GroupTags, tagDigest \in ReadOutcomes :
        GroupRead(t, tagDigest) /\ UNCHANGED outsideGroup
  \/ \E t \in GroupTags : GroupSend(t) /\ UNCHANGED outsideGroup
  \/ GroupClose /\ UNCHANGED outsideGroup
  \/ GroupReturn /\ UNCHANGED outsideGroup

\* ------------------------------------------------ storage: registry options
\* a registry is built with the given options
BuildRegistry(options) ==
  /\ registry' = [options |-> options, reg |-> NewRegistry(options)]
  /\ made' = NothingMade

\* a repository of the registry hands out its manifest service
CallManifests ==
  /\ made' = RepositoryManifests(registry.reg)
  /\ UNCHANGED registry

\* a repository of the registry hands out its blob store
CallBlobs ==
  /\ made' = RepositoryBlobs(registry.reg)
  /\ UNCHANGED registry

NextRegistry ==
  \/ \E options \in OptionLists : BuildRegistry(options) /\ UNCHANGED outsideRegistry
  \/ CallManifests /\ UNCHANGED outsideRegistry
  \/ CallBlobs /\ UNCHANGED outsideRegistry

\* -------------------------------------------------------- manifest builders
\* a builder is made over the blob service
NewBuilder(mb) ==
  /\ bld' = mb
  /\ blog' = <<>>
  /\ bret' = NoBuildReturn
  /\ bprev' = NoBuildReturn
  /\ bcall' = NoBuilderCall
  /\ UNCHANGED blobs

\* AppendReference: a Descriptor or a Describable is appended, anything else
\* is refused
AppendReference(d) ==
  /\ Len(bld.dependencies) < MaxReferences
  /\ IF d.type \in {"Descriptor", "Describable"}
       THEN /\ bld' = [bld EXCEPT !.dependencies = Append(@, d.descriptor)]
            /\ bcall' = [op |-> "AppendReference", err |-> "nil"]
            /\ bret' = NoBuildReturn
            /\ bprev' = NoBuildReturn
       ELSE /\ bcall' = [op |-> "AppendReference", err |-> "invalid type for reference"]
            /\ UNCHANGED <<bld, bret, bprev>>
  /\ UNCHANGED <<blobs, blog>>

\* Builder.SetMediaType of the OCI builder
SetMediaType(mediaType) ==
  /\ bld.kind = "ocischema"
  /\ IF mediaType # "" /\ mediaType # MediaTypeImageManifest
       THEN /\ bcall' = [op |-> "SetMediaType", err |-> "invalid media type"]
            /\ UNCHANGED bld
       ELSE /\ bld' = [bld EXCEPT !.mediaType = mediaType]
            /\ bcall' = [op |-> "SetMediaType", err |-> "nil"]
  /\ UNCHANGED <<blobs, blog, bret, bprev>>

\* mutant: Build hands its references over to the manifest and keeps none
BuildCall_DropsReferences(stat, put) ==
  /\ bld' = [bld EXCEPT !.dependencies = <<>>]
  /\ blog' = Build(bld, blobs, stat, put).calls
  /\ blobs' = Build(bld, blobs, stat, put).blobs
  /\ bret' = Build(bld, blobs, stat, put).ret
  /\ bprev' = bret
  /\ UNCHANGED bcall

\* a call of Build, with the outcomes of the blob service's Stat and Put
BuildCall(stat, put) ==
  /\ blog' = Build(bld, blobs, stat, put).calls
  /\ blobs' = Build(bld, blobs, stat, put).blobs
  /\ bret' = Build(bld, blobs, stat, put).ret
  /\ bprev' = bret
  /\ UNCHANGED <<bld, bcall>>

\* another client of the blob service deletes a content
BlobDelete(content) ==
  /\ content \in blobs
  /\ blobs' = blobs \ {content}
  /\ bret' = NoBuildReturn
  /\ bprev' = NoBuildReturn
  /\ UNCHANGED <<bld, blog, bcall>>

NextBuilder ==
  \/ \E mb \in Builders : NewBuilder(mb) /\ UNCHANGED outsideBuilder
  \/ \E d \in ReferenceArgs : AppendReference(d) /\ UNCHANGED outsideBuilder
  \/ \E mediaType \in {"", MediaTypeImageManifest, defaultMediaType} :
        SetMediaType(mediaType) /\ UNCHANGED outsideBuilder
  \/ \E stat, put \in BlobOutcomes : BuildCall(stat, put) /\ UNCHANGED outsideBuilder
  \/ \E content \in ConfigJSONs : BlobDelete(content) /\ UNCHANGED outsideBuilder

\* ------------------------------------------------------ rewrite middleware
\* the middleware is built with its options
NewRewrite(scheme, host, trim) ==
  rewrite' = [r |-> newRewriteStorageMiddleware(scheme, host, trim),
              wrapped |-> NoUrlResult, ret |-> NoUrlResult]

\* a call of URLFor to which the wrapped driver returns `wrapped`
URLForCall(wrapped) ==
  rewrite' = [rewrite EXCEPT !.wrapped = wrapped, !.ret = URLFor(rewrite.r, wrapped)]

NextRewrite ==
  \/ \E scheme \in SchemeOptions, host \in HostOptions, trim \in TrimOptions :
        NewRewrite(scheme, host, trim) /\ UNCHANGED outsideRewrite
  \/ \E wrapped \in WrappedResults : URLForCall(wrapped) /\ UNCHANGED outsideRewrite

\* a call of TagStore.All to which the driver's List returns `res`
AllCall(res) ==
  /\ listed' = res
  /\ allRet' = AllOf(res)

NextAll == \E res \in ListResults : AllCall(res) /\ UNCHANGED outsideAll

NextFreshness ==
  \/ \E dgst \in ManifestDigestSet, localOk \in BOOLEAN :
        ProxyGet(dgst, localOk, TRUE, TRUE) /\ UNCHANGED outsideProxy
  \/ \E tag \in ProxyTags :
        ProxyGetByTag(tag, TRUE, TRUE, TRUE, TRUE) /\ UNCHANGED outsideProxy
  \/ \E sm \in Manifests : RemotePush(sm) /\ UNCHANGED outsideProxy
  \/ SchedulerExpire /\ UNCHANGED outsideProxy
  \/ Tick /\ UNCHANGED outsideProxy

\* the registry is configured before it serves: proxy.ttl is given or left out
Configure(option) ==
  /\ pcalls = 0
  /\ ttlOption' = option
  /\ UNCHANGED <<tagVars, proxyVars, groupVars, allVars, registryVars, rewriteVars,
                 builderVars>>

NextProxy ==
  \/ \E sm \in Manifests : ProxyPut(sm) /\ UNCHANGED outsideProxy
  \/ \E dgst \in ManifestDigestSet : ProxyDelete(dgst) /\ UNCHANGED outsideProxy
  \/ \E dgst \in ManifestDigestSet, localOk, remoteOk, putOk \in BOOLEAN :
        ProxyGet(dgst, localOk, remoteOk, putOk) /\ UNCHANGED outsideProxy
  \/ \E tag \in ProxyTags, remoteOk, payloadOk, existsOk, putOk \in BOOLEAN :
        ProxyGetByTag(tag, remoteOk, payloadOk, existsOk, putOk) /\ UNCHANGED outsideProxy
  \/ \E sm \in Manifests : RemotePush(sm) /\ UNCHANGED outsideProxy

\* ----------------------------------------------------------- specifications
NextTags ==
  \/ \E p \in Callers, t \in Tags, d \in Digests, ok \in BOOLEAN :
        TagLinkBlob(p, t, d, ok) /\ RecordTagLinkBlob(p, t, d) /\ UNCHANGED outsideTags
  \/ \E p \in Callers, ok \in BOOLEAN :
        TagLinkCurrent(p, ok) /\ RecordTagLinkCurrent(p, ok) /\ UNCHANGED outsideTags
  \/ \E p \in Callers : TagReturn(p) /\ RecordTagReturn(p) /\ UNCHANGED outsideTags
  \/ \E t \in Tags : Untag(t) /\ RecordUntag(t) /\ UNCHANGED outsideTags

NextLookup ==
  \/ \E p \in Callers, t \in Tags, d \in Digests, ok \in BOOLEAN :
        TagLinkBlob(p, t, d, ok) /\ UNCHANGED otherVars
  \/ \E p \in Callers, ok \in BOOLEAN : TagLinkCurrent(p, ok) /\ UNCHANGED otherVars
  \/ \E p \in Callers : TagReturn(p) /\ UNCHANGED otherVars
  \/ \E t \in Tags : Untag(t) /\ UNCHANGED otherVars
  \/ \E d \in Digests : LookupAll(d) /\ UNCHANGED otherVars
  \/ \E t \in Tags : LookupRead(t) /\ UNCHANGED otherVars
  \/ LookupReturn /\ UNCHANGED otherVars

\* concurrent Tag and Untag requests on one repository, with their history
SpecTags == Init /\ [][NextTags]_vars

\* a Lookup request running among concurrent Tag and Untag requests
SpecLookup == Init /\ [][NextLookup]_vars

\* requests to the proxy manifest store while upstream tags move
SpecProxy == Init /\ [][NextProxy]_vars

\* the goroutines of one Lookup call of a store built from the environment
SpecGroup == Init /\ [][NextGroup]_vars

\* the same under the Go scheduler: a goroutine that can run eventually does
FairSpecGroup ==
  /\ SpecGroup
  /\ \A t \in GroupTags : WF_vars(GroupGo(t) /\ UNCHANGED outsideGroup)
  /\ WF_vars(GroupLoopEnd /\ UNCHANGED outsideGroup)
  /\ \A t \in GroupTags :
       WF_vars((\E tagDigest \in ReadOutcomes : GroupRead(t, tagDigest))
                 /\ UNCHANGED outsideGroup)
  /\ \A t \in GroupTags : WF_vars(GroupSend(t) /\ UNCHANGED outsideGroup)
  /\ WF_vars(GroupClose /\ UNCHANGED outsideGroup)
  /\ WF_vars(GroupReturn /\ UNCHANGED outsideGroup)

\* registries built with every list of options, and their repositories' services
SpecRegistry == Init /\ [][NextRegistry]_vars

\* manifest builders of the three kinds over one blob service
SpecBuilder == Init /\ [][NextBuilder]_vars

\* rewrite middlewares of every configuration over every wrapped result
SpecRewrite == Init /\ [][NextRewrite]_vars

\* calls of All over every listing of the tags directory
SpecAll == Init /\ [][NextAll]_vars

NextConfiguredProxy ==
  \/ \E option \in TTLOptions : Configure(option)
  \/ NextProxy

\* requests to the proxy manifest store of a registry configured with proxy.ttl
SpecConfiguredProxy == Init /\ [][NextConfiguredProxy]_vars

\* requests to the proxy manifest store while the scheduler's clock runs
SpecFreshness == Init /\ [][NextFreshness]_vars

\* ------------------------------------------------------- tag store: claims
Range(seq) == { seq[i] : i \in 1..Len(seq) }

NoDup(seq) == \A i, j \in 1..Len(seq) : seq[i] = seq[j] => i = j

Found(d) == [err |-> "nil", digest |-> d]

\* no Tag call on tag t is in flight
Quiet(t) == \A p \in Callers : call[p].st = "idle" \/ call[p].tag # t

\* C1: once Tag(t, d) has returned with no other Tag(t, .) or Untag(t) writing
\* during the call or after it, Get(t) returns a descriptor with digest d,
\* whatever Tag and Untag calls came before.
C1_GetAfterTag ==
  \A t \in Tags : lastTag[t] # NoDigest => Get(files, t) = Found(lastTag[t])

\* the Tag returned after the tag had been given another digest and untagged
C1_Witness ==
  \E t \in Tags :
    /\ lastTag[t] # NoDigest
    /\ tagged[t] = Digests
    /\ accumulated[t] = {lastTag[t]}
    /\ ManifestDigests(files, t) = {lastTag[t]}
    /\ Get(files, t) = Found(lastTag[t])

\* C2: when no Tag call on t is in flight, Get(t) returns the digest whose
\* write of the current link the backend applied last since the last Untag(t):
\* the digest of one of the Tag calls, never ErrTagUnknown.
C2_LastWriterWins ==
  \A t \in Tags :
    (Quiet(t) /\ lastApplied[t] # NoDigest) =>
      /\ Get(files, t) = Found(lastApplied[t])
      /\ lastApplied[t] \in tagged[t]

\* two Tag calls on t with different digests overlapped and both returned
C2_Witness ==
  \E t \in Tags :
    /\ Quiet(t)
    /\ writes = 2
    /\ accumulated[t] = Digests
    /\ lastTag[t] = NoDigest
    /\ Get(files, t) = Found(lastApplied[t])

\* C3: every digest of a Tag(t, .) call that returned successfully, with no
\* Untag(t) since the call began, is in ManifestDigests(t).
C3_HistoryAccumulates ==
  \A t \in Tags : accumulated[t] \subseteq ManifestDigests(files, t)

\* t was tagged with every digest in turn and its history holds them all
C3_Witness ==
  \E t \in Tags :
    /\ accumulated[t] = Digests
    /\ Quiet(t)
    /\ lastTag[t] # NoDigest
    /\ ManifestDigests(files, t) = Digests

\* C4: every digest in ManifestDigests(t) was the argument of a Tag(t, .) call.
C4_HistorySound ==
  \A t \in Tags : ManifestDigests(files, t) \subseteq tagged[t]

\* a digest tagged under another tag only is not in the history of t
C4_Witness ==
  \E t, u \in Tags, d \in Digests :
    /\ d \in ManifestDigests(files, u)
    /\ d \notin tagged[t]
    /\ ManifestDigests(files, t) # {}
    /\ d \notin ManifestDigests(files, t)

\* C5: a Lookup that ran with no concurrent writer returns successfully the
\* tags whose current digest equals desc.Digest, each once and no other tag.
C5_LookupExact ==
  (lk.st = "done" /\ ~lk.dirty /\ lk.removed = {}) =>
    /\ ~lk.failed
    /\ Range(lk.out) = { t \in Tags : Get(files, t) = Found(lk.dgst) }
    /\ NoDup(lk.out)

\* Lookup returned a tag whose history also holds another digest, and left
\* out a tag whose current digest is another one
C5_Witness ==
  /\ lk.st = "done" /\ ~lk.dirty /\ lk.removed = {}
  /\ \E t, u \in Tags :
       /\ lk.out = <<t>>
       /\ ManifestDigests(files, t) = Digests
       /\ Get(files, u).err = "nil"
       /\ Get(files, u).digest # lk.dgst

\* C6: when Untag removes tags that Lookup has listed and not yet read (and
\* nothing else is written meanwhile), Lookup returns successfully, without
\* the removed tags and with every other tag whose current digest matches.
C6_LookupToleratesRemoval ==
  (lk.st = "done" /\ ~lk.dirty /\ lk.removed # {}) =>
    /\ ~lk.failed
    /\ Range(lk.out) \cap lk.removed = {}
    /\ Range(lk.out) = { t \in Tags \ lk.removed : Get(files, t) = Found(lk.dgst) }

\* a listed tag was removed before its read and another tag was returned
C6_Witness ==
  /\ lk.st = "done" /\ ~lk.dirty /\ ~lk.failed
  /\ \E t, u \in Tags : lk.removed = {t} /\ lk.out = <<u>> /\ t # u

\* C7: a tag that was never tagged, or was untagged with no Tag step on it
\* since, fails Get with ErrTagUnknown, is not in All() and has no history; no
\* Lookup read emits it; and an Untag(t) step leaves the current digest and the
\* history of every other tag unchanged.
C7_UntagRemovesExactlyTag ==
  /\ [](\A t \in Tags :
          life[t] \in {"never", "untagged"} =>
            /\ Get(files, t) = [err |-> "ErrTagUnknown", digest |-> NoDigest]
            /\ t \notin All(files).tags
            /\ ManifestDigests(files, t) = {})
  /\ [][\A t \in Tags :
          /\ (life[t] = "untagged" /\ life'[t] = "untagged") =>
                (t \in Range(lk'.out) => t \in Range(lk.out))
          /\ Untag(t) =>
                \A u \in Tags \ {t} :
                  /\ Get(files', u) = Get(files, u)
                  /\ ManifestDigests(files', u) = ManifestDigests(files, u)]_vars

\* t was untagged while another tag keeps its current digest and history
C7_Witness ==
  \E t, u \in Tags :
    /\ t # u
    /\ life[t] = "untagged"
    /\ Get(files, t).err = "ErrTagUnknown"
    /\ Get(files, u).err = "nil"
    /\ ManifestDigests(files, u) = Digests

\* ----------------------------------------------- proxyManifestStore: claims
CallNames(log) == [i \in 1..Len(log) |-> log[i].call]

IsPrefix(a, b) == Len(a) <= Len(b) /\ \A i \in 1..Len(a) : a[i] = b[i]

\* the calls before the last one of a handler all succeeded
AllButLastOk(log) == \A i \in 1..Len(log) : i < Len(log) => log[i].ok

Scheduled == [repo |-> repositoryName, ttl |-> repositoryTTL]

GetMissOrder == <<"local.Get", "remote.Get", "local.Put", "scheduler.AddManifest">>

GetByTagOrder == <<"remote.GetByTag", "local.Exists", "local.Put", "scheduler.AddManifest">>

\* C8: every Put and every Delete of the proxy manifest store returns the
\* "Not supported" error, calls no collaborator, and leaves the local store,
\* the upstream and the scheduler unchanged.
C8_ProxyReadOnly ==
  [][(pcalls' # pcalls /\ pret'.op \in {"Put", "Delete"}) =>
        /\ pret'.err = "Not supported"
        /\ plog' = <<>>
        /\ local' = local
        /\ remoteTags' = remoteTags
        /\ sched' = sched]_vars

\* Put was refused on a proxy whose local store and scheduler are populated
C8_Witness ==
  /\ pret.op = "Put"
  /\ pret.err = "Not supported"
  /\ local # {}
  /\ sched # <<>>

\* C9: Get(dgst) asks the local store first; when it returns the manifest that
\* is the only call and nothing changes; otherwise the calls are, in order and
\* each only after the one before succeeded, remote Get, local Put, and
\* scheduler.AddManifest(repositoryName, repositoryTTL) once, and Get succeeds
\* with the manifest of that digest exactly when all of them were made.
C9_ProxyGetLocalFirst ==
  [][(pcalls' # pcalls /\ pret'.op = "Get") =>
        /\ plog' # <<>>
        /\ plog'[1].call = "local.Get"
        /\ plog'[1].ok =>
             /\ Len(plog') = 1
             /\ pret'.err = "nil"
             /\ pret'.sm \in local
             /\ DigestOf(pret'.sm) = pret'.arg
             /\ local' = local /\ sched' = sched
        /\ ~plog'[1].ok =>
             /\ Len(plog') >= 2
             /\ IsPrefix(CallNames(plog'), GetMissOrder)
             /\ \A i \in 2..Len(plog') : i < Len(plog') => plog'[i].ok
             /\ (pret'.err = "nil") = (Len(plog') = 4)
             /\ IF Len(plog') = 4
                  THEN /\ DigestOf(pret'.sm) = pret'.arg
                       /\ local' = local \cup {pret'.sm}
                       /\ sched' = Append(sched, Scheduled)
                  ELSE local' = local /\ sched' = sched]_vars

\* a Get missed locally, fetched the manifest upstream, stored and scheduled it
C9_Witness ==
  /\ pret.op = "Get"
  /\ pret.err = "nil"
  /\ CallNames(plog) = GetMissOrder
  /\ pret.sm \in local
  /\ sched = <<Scheduled>>

\* C10: GetByTag(tag) calls the remote first; when that fails it fails with
\* no local call and no change, even with a manifest of the tag cached; when
\* the fetched manifest's digest exists locally it is returned with no Put and
\* nothing scheduled; otherwise it is Put locally, then scheduled, and returned.
C10_ProxyGetByTagRemoteFirst ==
  [][(pcalls' # pcalls /\ pret'.op = "GetByTag") =>
        /\ plog' # <<>>
        /\ IsPrefix(CallNames(plog'), GetByTagOrder)
        /\ AllButLastOk(plog')
        /\ ~plog'[1].ok =>
             /\ Len(plog') = 1
             /\ pret'.err # "nil"
             /\ local' = local /\ sched' = sched
        /\ pret'.err = "nil" =>
             /\ pret'.sm = remoteTags[pret'.arg]
             /\ IF StoreHas(local, DigestOf(pret'.sm))
                  THEN /\ CallNames(plog') = <<"remote.GetByTag", "local.Exists">>
                       /\ local' = local /\ sched' = sched
                  ELSE /\ CallNames(plog') = GetByTagOrder
                       /\ local' = local \cup {pret'.sm}
                       /\ sched' = Append(sched, Scheduled)
        /\ pret'.err # "nil" => (local' = local /\ sched' = sched)]_vars

\* the remote call failed while a manifest of that tag was cached locally
C10_Witness ==
  /\ pret.op = "GetByTag"
  /\ pret.err = "remote"
  /\ plog = <<Call("remote.GetByTag", FALSE)>>
  /\ \E m \in local : m.tag = pret.arg

\* C11: a manifest is in the local store only while its repository's entry is
\* pending, for less than 2 * ttl after the latest AddManifest(repo, ttl) and
\* never after that; and AddManifest on a key that is already scheduled moves
\* its expiry to max(existing, now + ttl) and leaves one entry for the key.
C11_ProxyFreshness ==
  /\ [](local # {} =>
          /\ now - lastAdd < 2 * repositoryTTL
          /\ \E e \in entries : e.key = repositoryName /\ now <= e.expiresAt)
  /\ [](now - lastAdd >= 2 * repositoryTTL => local = {})
  /\ [][Len(sched') > Len(sched) =>
          \A e \in entries :
            e.key = repositoryName =>
              { f \in entries' : f.key = e.key } =
                {[key |-> e.key, expiresAt |-> Max({e.expiresAt, now + repositoryTTL})]}]_vars

\* a populated manifest was evicted and 2 * ttl have passed since it was scheduled
C11_Witness ==
  /\ sched # <<>>
  /\ local = {}
  /\ entries = {}
  /\ now - lastAdd >= 2 * repositoryTTL

\* --------------------------------------------------- Lookup goroutines: claims
\* C12: at every instant of a Lookup call at which current links are being
\* read, the number of reads in flight is at most lookupConcurrencyFactor.
C12_LookupBoundedParallelism ==
  (grp.st = "running" /\ InFlight # {}) => Cardinality(InFlight) <= factor

\* with a positive factor no more than `factor` readers hold a slot of the group
GroupLimitHolds == (grp.st = "running" /\ factor > 0) => Cardinality(Active) <= factor

\* C20: a Lookup call that has not returned always has a goroutine that can
\* run, so that it eventually returns; when it has returned every reader has
\* finished and the channel is closed; and when a read failed with an error
\* other than PathNotFound it returns the error and no tags.
C20_LookupTerminates ==
  /\ grp.st = "running" => ENABLED NextGroup
  /\ grp.st = "returned" =>
       /\ \A t \in grp.all : grp.reader[t] = "done"
       /\ Active = {}
       /\ grp.closed
       /\ grp.err => grp.ret = [err |-> "error", tags |-> <<>>]

\* with a factor other than 0 every Lookup call returns
GroupTerminatesWhenAdmitted ==
  (grp.st = "running" /\ factor # 0) ~> (grp.st = "returned")

\* ------------------------------------------------------------- All: claims
\* C13: All returns the file names of the listed entries, one per entry, in
\* ascending lexicographic order, the same list whatever order the driver
\* listed them in; when the tags directory does not exist (PathNotFound) it
\* returns ErrRepositoryUnknown and no list.
C13_AllSorted ==
  allRet.err # "none" =>
    /\ listed.err = "nil" =>
         /\ allRet.err = "nil"
         /\ Len(allRet.tags) = Len(listed.entries)
         /\ Range(allRet.tags) = { listed.entries[i].file : i \in 1..Len(listed.entries) }
         /\ \A i, j \in 1..Len(allRet.tags) : i < j => StringLess(allRet.tags[i], allRet.tags[j])
         /\ \A other \in ListResults :
              (other.err = "nil" /\ Range(other.entries) = Range(listed.entries)) =>
                AllOf(other) = allRet
    /\ listed.err = "PathNotFound" => allRet = [err |-> "ErrRepositoryUnknown", tags |-> <<>>]

\* three entries listed in descending order came back ascending, a name
\* before the longer names it is a prefix of
C13_Witness ==
  /\ listed.err = "nil"
  /\ [i \in 1..Len(listed.entries) |-> listed.entries[i].file] = << <<2>>, <<1, 2>>, <<1>> >>
  /\ allRet = [err |-> "nil", tags |-> << <<1>>, <<1, 2>>, <<2>> >>]

\* C14: every scheduler.AddManifest call of Get and GetByTag passes the
\* configured proxy.ttl when the option is set, and 10 minutes when it is not.
C14_ConfiguredTTL ==
  [][Len(sched') > Len(sched) =>
       sched'[Len(sched')].ttl =
         IF ttlOption.set THEN ttlOption.minutes ELSE repositoryTTL]_vars

\* ------------------------------------------------ registry options: claims
\* C15: a registry has deletion enabled exactly when EnableDelete is among the
\* options it was built with; its deleteEnabled always equals its blob
\* store's; and the linked blob stores returned by Blobs and used by Manifests
\* (the manifest store's and its handlers') carry that same flag.
C15_DeleteFlag ==
  /\ registry.reg.deleteEnabled = ("EnableDelete" \in Range(registry.options))
  /\ registry.reg.deleteEnabled = registry.reg.blobStore.deleteEnabled
  /\ \A store \in made.stores : store.deleteEnabled = registry.reg.deleteEnabled
  /\ made.kind = "Manifests" =>
       \A store \in {made.blobStore, made.schema1Handler, made.schema2Handler,
                      made.manifestListHandler} :
         store.deleteEnabled = registry.reg.deleteEnabled

\* EnableDelete came between two other options and the manifest store of the
\* registry carries the flag
C15_Witness ==
  /\ Len(registry.options) = 3
  /\ registry.options[2] = "EnableDelete"
  /\ registry.options[1] # "EnableDelete" /\ registry.options[3] # "EnableDelete"
  /\ made.kind = "Manifests"
  /\ made.blobStore.deleteEnabled


\* ------------------------------------------------------ rewrite middleware
URLForReturned == rewrite.ret.err # "none"

NoRewriteOptions ==
  /\ rewrite.r.overrideScheme = ""
  /\ rewrite.r.overrideHost = ""
  /\ rewrite.r.trimPathPrefix = <<>>

\* the wrapped URL with the configured parts replaced, as the claim words it
RewrittenUrl(r, u) ==
  [Scheme   |-> IF r.overrideScheme # "" THEN r.overrideScheme ELSE u.Scheme,
   Host     |-> IF r.overrideHost # "" THEN r.overrideHost ELSE u.Host,
   Path     |-> IF r.trimPathPrefix # <<>> /\ HasPrefix(u.Path, r.trimPathPrefix)
                  THEN SubSeq(u.Path, Len(r.trimPathPrefix) + 1, Len(u.Path))
                  ELSE u.Path,
   RawQuery |-> u.RawQuery]

\* C16 as stated: URLFor returns the wrapped driver's URL with the scheme
\* replaced iff a non-empty "scheme" option was configured, the host replaced
\* iff a non-empty "host" option was configured and the "trimpathprefix" value
\* removed from the front of the path iff it is configured and the path starts
\* with it; every other component is unchanged, so with no options the wrapped
\* URL is returned as is; an error of the wrapped URLFor is returned with an
\* empty URL
C16_URLForRewrites ==
  URLForReturned =>
    IF rewrite.wrapped.err # "nil"
      THEN rewrite.ret = [url |-> <<>>, err |-> rewrite.wrapped.err]
      ELSE /\ rewrite.ret.err = "nil"
           /\ LET want == RewrittenUrl(rewrite.r, UrlParse(rewrite.wrapped.url).u)
                   got == UrlParse(rewrite.ret.url).u
               IN  /\ got.Scheme = want.Scheme
                   /\ got.Host = want.Host
                   /\ got.RawQuery = want.RawQuery
                   /\ got.Path \in {want.Path, <<"/">> \o want.Path}
           /\ NoRewriteOptions => rewrite.ret.url = rewrite.wrapped.url

\* C16 amended: the same rewriting for a wrapped URL that url.Parse accepts,
\* the result being printed by URL.String (lower-case scheme, a "/" before a
\* path that no longer begins with one), so that with no options a wrapped URL
\* already in that form is returned as is; a wrapped URL that does not parse
\* makes URLFor return the parse error with an empty URL, as an error of the
\* wrapped URLFor does
C16_URLForRewritesParsed ==
  URLForReturned =>
    IF rewrite.wrapped.err # "nil"
      THEN rewrite.ret = [url |-> <<>>, err |-> rewrite.wrapped.err]
    ELSE IF UrlParse(rewrite.wrapped.url).err # "nil"
      THEN rewrite.ret = [url |-> <<>>, err |-> UrlParse(rewrite.wrapped.url).err]
    ELSE LET u == UrlParse(rewrite.wrapped.url).u
             want == RewrittenUrl(rewrite.r, u)
             got == UrlParse(rewrite.ret.url).u
         IN  /\ rewrite.ret = [url |-> UrlString(want), err |-> "nil"]
             /\ got.Scheme = want.Scheme
             /\ got.Host = want.Host
             /\ got.RawQuery = u.RawQuery
             /\ got.Path \in {want.Path, <<"/">> \o want.Path}
             /\ (NoRewriteOptions /\ UrlString(u) = rewrite.wrapped.url)
                  => rewrite.ret.url = rewrite.wrapped.url

\* a URL was rewritten in all three parts, and its query kept
C16_Witness ==
  /\ rewrite.r = newRewriteStorageMiddleware("https", "example.com", <<"/", "some", "/", "path">>)
  /\ rewrite.wrapped = [url |-> <<"http", "://", "some.host", "/", "some", "/", "path", "/", "file", "?", "sig=1">>,
                        err |-> "nil"]
  /\ rewrite.ret = [url |-> <<"https", "://", "example.com", "/", "file", "?", "sig=1">>, err |-> "nil"]


\* ------------------------------------------------- Tag: index, then current
CurrentLink(t) == files[manifestTagCurrentPath(t)]

\* C18: Tag writes the index entry of the digest first and the current link
\* second: as long as no Untag(t) has occurred, in every state of every
\* interleaving of Tag calls, a failure between the two writes included, the
\* digest in t's current link has an index entry in t's history (which it had
\* before the current link was written); a failed index write leaves every
\* current link unchanged.
C18_IndexBeforeCurrent ==
  /\ [](\A t \in Tags :
          (t \notin untagged /\ CurrentLink(t) # NoDigest) =>
            CurrentLink(t) \in ManifestDigests(files, t))
  /\ [][\A t \in Tags :
          /\ (t \notin untagged' /\ files'[manifestTagCurrentPath(t)] # CurrentLink(t)) =>
                files'[manifestTagCurrentPath(t)] \in ManifestDigests(files, t)
          /\ (\E p \in Callers, d \in Digests : TagLinkBlob(p, t, d, FALSE)) =>
                \A u \in Tags : files'[manifestTagCurrentPath(u)] = CurrentLink(u)]_vars

\* two Tag calls on a tag never untagged: one returned, the other one wrote
\* its index entry and failed before the current link
C18_Witness ==
  \E t \in Tags, d \in Digests :
    /\ t \notin untagged
    /\ Quiet(t)
    /\ Get(files, t) = Found(d)
    /\ accumulated[t] = {d}
    /\ ManifestDigests(files, t) = Digests

\* C19: once an overlapping Tag(t, d) and Untag(t) have both returned, t is
\* entirely absent or fully present: no interleaving leaves a current link for
\* t whose digest has no index entry in t's history.
C19_TagUntagAllOrNothing ==
  \A t \in Tags :
    (Quiet(t) /\ Get(files, t).err = "nil") =>
      Get(files, t).digest \in ManifestDigests(files, t)


\* -------------------------------------------------------- manifest builders
\* the last Build was one of a builder with a blob service
BuiltWithBlobService == bret.err # "none" /\ bld.kind # "descriptor"

PutCalls == { i \in 1..Len(blog) : blog[i].call = "bs.Put" }

\* some Build succeeds from here
BuildSucceeds ==
  \E stat, put \in BlobOutcomes :
    BuildCall(stat, put) /\ bret'.err = "nil" /\ UNCHANGED outsideBuilder

BuildStep == \E stat, put \in BlobOutcomes : BuildCall(stat, put)

\* C21: Build of the schema2 and OCI builders publishes the configuration blob
\* at most once: its first blob service call is Stat of digest(configJSON), it
\* calls Put only after Stat returned ErrBlobUnknown and never after Stat
\* succeeded, and after a successful Build the configuration blob is in the
\* blob service.
C21_ConfigPublishedOnce ==
  BuiltWithBlobService =>
    /\ Len(blog) >= 1
    /\ blog[1].call = "bs.Stat"
    /\ Cardinality(PutCalls) <= 1
    /\ \A i \in PutCalls : i = 2 /\ blog[1].err = "ErrBlobUnknown"
    /\ blog[1].err = "nil" => PutCalls = {}
    /\ bret.err = "nil" =>
         /\ \E c \in blobs : FromBytes(c) = FromBytes(bld.configJSON)
         /\ BlobStat(blobs, FromBytes(bld.configJSON),
                     [fails |-> FALSE, mediaType |-> "application/octet-stream"]).err = "nil"

\* a Build found the configuration missing, Put it and succeeded
C21_Witness ==
  /\ bld.kind = "schema2"
  /\ bret.err = "nil"
  /\ Len(blog) = 2
  /\ blog[1].err = "ErrBlobUnknown"
  /\ blog[2] = [call |-> "bs.Put", err |-> "nil",
                desc |-> Descriptor("application/octet-stream", bld.configJSON)]
  /\ bld.configJSON \in blobs

\* C22: when Stat fails with an error other than ErrBlobUnknown, Build returns
\* that error and a nil manifest without calling Put; when Put fails, Build
\* returns that error and a nil manifest; either way the builder is as it was
\* and a later Build can succeed.
C22_BuildErrors ==
  /\ [](BuiltWithBlobService =>
          /\ blog[1].err \notin {"nil", "ErrBlobUnknown"} =>
               /\ bret = [err |-> blog[1].err, manifest |-> NilManifest]
               /\ PutCalls = {}
          /\ \A i \in PutCalls :
               blog[i].err # "nil" => bret = [err |-> blog[i].err, manifest |-> NilManifest]
          /\ bret.err # "nil" =>
               /\ bret.manifest = NilManifest
               /\ ENABLED BuildSucceeds)
  /\ [][BuildStep => bld' = bld]_vars

\* a Build failed at Put on a builder that holds references
C22_Witness ==
  /\ BuiltWithBlobService
  /\ bret = [err |-> "put failed", manifest |-> NilManifest]
  /\ Len(blog) = 2
  /\ Len(bld.dependencies) = MaxReferences
  /\ bld.configJSON \notin blobs

\* C23: two consecutive successful Builds of one builder, with no
\* AppendReference in between and a blob service that kept what was Put,
\* return manifests with equal config descriptors and equal layers, the second
\* without a Put; Build never changes the builder's references.
C23_BuildIdempotent ==
  /\ []((bprev.err = "nil" /\ bret.err = "nil") =>
          /\ bret.manifest.Manifest.Config = bprev.manifest.Manifest.Config
          /\ bret.manifest.Manifest.Layers = bprev.manifest.Manifest.Layers
          /\ PutCalls = {})
  /\ [][BuildStep => bld'.dependencies = bld.dependencies]_vars

\* the second of two successful Builds of a builder with references hit Stat,
\* which reported another media type than the builder's
C23_Witness ==
  /\ bld.kind = "ocischema"
  /\ bprev.err = "nil"
  /\ bret.err = "nil"
  /\ Len(bld.dependencies) = MaxReferences
  /\ Len(blog) = 1
  /\ blog[1].desc.MediaType # MediaTypeImageConfig
  /\ bret.manifest.Manifest.Layers = bld.dependencies

====
